---- MODULE Spec2Model ----
(***************************************************************************)
(* A model of the sampling-and-scoring engine of phylop_scores:           *)
(* lib/features.py (class Feature) and the helpers of lib/libtools.py it   *)
(* calls.                                                                  *)
(*                                                                         *)
(* Representation.                                                         *)
(*  - A BED string "%s\t%d\t%d" is the record [chrom, start, end]; the     *)
(*    decimal text of an integer and its parse are inverse to each other,  *)
(*    so the record keeps exactly what the string holds.  The sentinel     *)
(*    "NA\tNA\tNA" is the record NA_REGION, equal to no formatted region.  *)
(*  - A BED file and a BedTool are the sequence of their records in file   *)
(*    order; the empty string '' returned by run_bedextract and an empty   *)
(*    BedTool both compare equal to '' in the code and are both <<>>.      *)
(*  - A score is a float in the code; here scores are integers and a mean  *)
(*    is the exact rational [num, den] in lowest terms.                    *)
(*  - A result of a simulation is the record [kind, num, den] with kind    *)
(*    one of "score", "NA", "NameError1", "NameError2".                    *)
(*  - random.shuffle / random.randrange / random.choice are \E over the    *)
(*    values they can return; an exception leaves pc = "raised".           *)
(***************************************************************************)
EXTENDS Integers, Sequences, FiniteSets, TLC

VARIABLES
    feature,                  \* the Feature object: [chrom, start, end, name]
    allowed_regions_dict,     \* get_regions(): key -> list of <<start, end>>
    not_allowed_regions_bed,  \* the sorted file of regions not allowed
    query_bed,                \* the sorted file of scored records
    window_r, window_l,       \* the window arguments of the call
    op,                       \* the method of Feature that was called
    pc,                       \* "start", a loop of the method, "done", "raised"
    score,                    \* the value a simulation returns
    right_flank, left_flank,  \* flanking_regions(): the two strings returned
    intersect_r, intersect_l, \* flanking_simulation(): locals
    right_feature, left_feature,
    attempts,                 \* the sampler's loop counter
    rejected,                 \* passes of the sampler's loop that did not accept
    sim_attempts,             \* the simulation's loop counter
    allowed_regions,          \* random_regions(): its argument
    random_region,            \* the interval the sampler returned
    last,                     \* the sampler's last attempt (its locals)
    random_features,          \* the simulation's last score-store query result
    samples,                  \* number of sampler calls the simulation made
    queries,                  \* number of score-store queries it made
    empty_queries,            \* those of its queries that returned nothing
    store_query,              \* the region the score store's bedextract process
                              \* was started on in this pass, NO_REGION if none
    error                     \* the exception raised, "" when none

inputs == <<feature, allowed_regions_dict, not_allowed_regions_bed, query_bed,
            window_r, window_l>>
flank_locals == <<right_flank, left_flank, intersect_r, intersect_l,
                  right_feature, left_feature>>
sampler_locals == <<attempts, rejected, allowed_regions, random_region, last>>
sim_locals == <<sim_attempts, random_features, samples, queries, empty_queries,
                store_query>>
vars == <<inputs, op, pc, score, flank_locals, sampler_locals, sim_locals,
          error>>

-----------------------------------------------------------------------------
(* Bounds of the model. *)

\* largest coordinate of a record of a store
MaxCoord == 8
\* largest start of a feature
MaxStart == 3
\* largest size of a feature
MaxSize == 2
\* largest number of records in the not-allowed store
MaxNotAllowed == 2
\* largest number of records in the score store
MaxScored == 3
\* largest window argument
MaxWindow == 3
\* largest number of allowed regions under one key
MaxRegions == 2

(* Constants of the program. *)

MAX_ATTEMPTS == 100

-----------------------------------------------------------------------------
(* Values. *)

BedString(chrom, start, end) == [chrom |-> chrom, start |-> start, end |-> end]

NA_REGION == [chrom |-> "NA", start |-> 0, end |-> 0]

NO_REGION == [chrom |-> "", start |-> 0, end |-> 0]

NA == [kind |-> "NA", num |-> 0, den |-> 1]

NameError1 == [kind |-> "NameError1", num |-> 0, den |-> 1]

NameError2 == [kind |-> "NameError2", num |-> 0, den |-> 1]

NO_SCORE == [kind |-> "", num |-> 0, den |-> 1]

Abs(x) == IF x < 0 THEN -x ELSE x

RECURSIVE Gcd(_, _)
Gcd(a, b) == IF b = 0 THEN a ELSE Gcd(b, a % b)

\* the rational n/d (d > 0) in lowest terms, as a score
Rat(n, d) ==
    LET g == Gcd(Abs(n), d)
    IN  [kind |-> "score", num |-> n \div g, den |-> d \div g]

RECURSIVE SumScores(_)
SumScores(records) ==
    IF records = <<>> THEN 0
    ELSE Head(records).score + SumScores(Tail(records))

\* numpy.mean of a list of two scores
mean2(a, b) == Rat(a.num * b.den + b.num * a.den, 2 * a.den * b.den)

\* Feature.__init__: self.size
Size(f) == f.end - f.start

-----------------------------------------------------------------------------
(* lib/libtools.py *)

\* Two intervals overlap: same chromosome, ranges intersecting in at least
\* one base (half-open).
Overlaps(a, b) == a.chrom = b.chrom /\ a.start < b.end /\ b.start < a.end

\* the records of a file that overlap a region, in file order
Overlapping(bed_region, bed_file) ==
    SelectSeq(bed_file, LAMBDA r : Overlaps(r, bed_region))

\* a region an interval tool accepts: coordinates not negative, not empty
WellFormed(bed_region) == bed_region.start >= 0 /\ bed_region.start < bed_region.end

\* The bedextract process on a region and a sorted file.  On a region that is
\* not a BED interval (negative start, or no base) the tool may print
\* nothing, or answer as for any other range.
bedextract(bed_region, bed_file) ==
    IF WellFormed(bed_region)
    THEN {Overlapping(bed_region, bed_file)}
    ELSE {<<>>, Overlapping(bed_region, bed_file)}

\* the bedextract process started on every region, the sentinel too
invokes_store_always(bed_region) == TRUE

\* if bed_region == "NA\tNA\tNA": query_regions = '', else the process runs
invokes_store(bed_region) == bed_region # NA_REGION

\* run_bedextract: the results the call can return
run_bedextract(bed_region, bed_file) ==
    IF invokes_store(bed_region)
    THEN bedextract(bed_region, bed_file)
    ELSE {<<>>}

RECURSIVE SumWeighted(_)
SumWeighted(records) ==
    IF records = <<>> THEN 0
    ELSE (Head(records).end - Head(records).start) * Head(records).score
         + SumWeighted(Tail(records))

RECURSIVE SumLengths(_)
SumLengths(records) ==
    IF records = <<>> THEN 0
    ELSE (Head(records).end - Head(records).start) + SumLengths(Tail(records))

\* the mean with every score weighted by the length of its interval
calculate_mean_score_weighted(query_regions) ==
    IF query_regions = <<>>
    THEN NA
    ELSE Rat(SumWeighted(query_regions), SumLengths(query_regions))

\* "NA" for '' (an empty BedTool equals ''), else numpy.mean of the scores
calculate_mean_score(query_regions) ==
    IF query_regions = <<>>
    THEN NA
    ELSE Rat(SumScores(query_regions), Len(query_regions))

-----------------------------------------------------------------------------
(* lib/features.py: flanking_regions, flanking_simulation *)

\* flanking_regions with the left flank placed against the feature start
\* (the window_l offset dropped)
flanking_regions_no_offset(self, wr, wl) ==
    LET right_interval == <<self.end + wr, self.end + Size(self) + wr>>
        left_interval == <<self.start - Size(self), self.start>>
    IN  [right |-> BedString(self.chrom, right_interval[1], right_interval[2]),
         left |-> BedString(self.chrom, left_interval[1], left_interval[2])]

flanking_regions(self, wr, wl) ==
    LET right_interval == <<self.end + wr, self.end + Size(self) + wr>>
        left_interval == <<(self.start - wl) - Size(self), self.start - wl>>
    IN  [right |-> BedString(self.chrom, right_interval[1], right_interval[2]),
         left |-> BedString(self.chrom, left_interval[1], left_interval[2])]

\* flanking_score with the two one-sided rows exchanged: the blocked flank
\* is the one scored
flanking_score_blocked_side(ir, il, lf, rf) ==
    IF ir # <<>> /\ il # <<>> THEN NA
    ELSE IF ir # <<>> /\ il = <<>> THEN calculate_mean_score(rf)
    ELSE IF ir = <<>> /\ il # <<>> THEN calculate_mean_score(lf)
    ELSE LET score_l == calculate_mean_score(lf)
             score_r == calculate_mean_score(rf)
         IN  IF score_l # NA /\ score_r # NA THEN mean2(score_l, score_r)
             ELSE IF score_l # NA /\ score_r = NA THEN score_l
             ELSE IF score_l = NA /\ score_r # NA THEN score_r
             ELSE NA

\* flanking_score with the records of both flanks pooled into one mean
flanking_score_pooled(ir, il, lf, rf) ==
    IF ir # <<>> /\ il # <<>> THEN NA
    ELSE IF ir # <<>> /\ il = <<>> THEN calculate_mean_score(lf)
    ELSE IF ir = <<>> /\ il # <<>> THEN calculate_mean_score(rf)
    ELSE calculate_mean_score(lf \o rf)

\* the if/elif chain of flanking_simulation over what the queries returned;
\* lf and rf are the score-store matches of the left and the right flank
flanking_score(ir, il, lf, rf) ==
    IF ir # <<>> /\ il # <<>> THEN NA
    ELSE IF ir # <<>> /\ il = <<>> THEN calculate_mean_score(lf)
    ELSE IF ir = <<>> /\ il # <<>> THEN calculate_mean_score(rf)
    ELSE LET score_l == calculate_mean_score(lf)
             score_r == calculate_mean_score(rf)
         IN  IF score_l # NA /\ score_r # NA THEN mean2(score_l, score_r)
             ELSE IF score_l # NA /\ score_r = NA THEN score_l
             ELSE IF score_l = NA /\ score_r # NA THEN score_r
             ELSE NA

-----------------------------------------------------------------------------
(* Inputs. *)

Chrom == "chr1"

RECURSIVE SortBed(_)
\* the records of a set in sort-bed order (start, then end)
SortBed(S) ==
    IF S = {} THEN <<>>
    ELSE LET m == CHOOSE r \in S : \A q \in S :
                      r.start < q.start \/ (r.start = q.start /\ r.end <= q.end)
         IN  <<m>> \o SortBed(S \ {m})

SmallSubsets(U, n) == {S \in SUBSET U : Cardinality(S) <= n}

Features ==
    {[chrom |-> Chrom, start |-> s, end |-> s + z, name |-> <<"m">>] :
        s \in 0..MaxStart, z \in 1..MaxSize}

\* the not-allowed regions a store may hold
NotAllowedRecords ==
    {BedString(Chrom, s, e) : s \in 0..MaxCoord, e \in 1..MaxCoord}

\* the not-allowed stores of the flanking mode: sorted files of at most
\* MaxNotAllowed regions of MaxSize bases (a region as long as the longest
\* flank: it can cover a flank, cut into it, or abut it)
FlankNotAllowedStores ==
    {SortBed(S) : S \in SmallSubsets(
        {r \in NotAllowedRecords : r.end - r.start = MaxSize}, MaxNotAllowed)}

\* the score of the base at position p in the score files of the model
ScoreAt(p) == ((p * p) % 5) - 1

\* the per-base records a score store may hold
ScoredRecords ==
    {[chrom |-> Chrom, start |-> p, end |-> p + 1, score |-> ScoreAt(p)] :
        p \in 0..(MaxCoord - 1)}

ScoreStores == {SortBed(S) : S \in SmallSubsets(ScoredRecords, MaxScored)}

\* the allowed regions of the model: a value of allowed_regions_dict holds
\* <<start, end>> pairs of BED records (0 <= start < end).  A region of
\* MaxSize bases holds no candidate of the largest feature, the longer ones
\* do; the regions start at coordinate 0 or at the largest feature start.
AllowedPairs ==
    {<<s, s + n>> : s \in {0, MaxStart},
                    n \in {MaxSize, MaxSize + 2, MaxCoord - MaxStart}}

RECURSIVE SortPairs(_)
SortPairs(S) ==
    IF S = {} THEN <<>>
    ELSE LET m == CHOOSE r \in S : \A q \in S :
                      r[1] < q[1] \/ (r[1] = q[1] /\ r[2] <= q[2])
         IN  <<m>> \o SortPairs(S \ {m})

\* the lists a key of allowed_regions_dict can map to: never empty
AllowedLists ==
    {SortPairs(S) : S \in SmallSubsets(AllowedPairs, MaxRegions) \ {{}}}

\* the regions of the not-allowed stores of the random flanking mode: next
\* to coordinate 0 and next to the end of the last feature, of one base and
\* of MaxSize + 1 bases (one can lie inside another, and reach a feature)
GeneRecords ==
    {BedString(Chrom, s, s + n) :
        s \in {0, 1, MaxStart + MaxSize + 1},
        n \in {1, MaxSize + 1}}

GeneStores == {SortBed(S) : S \in SmallSubsets(GeneRecords, MaxNotAllowed)}

\* feature names, as the characters of the string: "m", "m_G", "m_G_T",
\* "G_T_m", "m_G_T_x"
FeatureNames ==
    {<<"m">>,
     <<"m", "_", "G">>,
     <<"m", "_", "G", "_", "T">>,
     <<"G", "_", "T", "_", "m">>,
     <<"m", "_", "G", "_", "T", "_", "x">>}

\* the features of the intragenic mode: one locus under every name
NamedFeatures ==
    {[chrom |-> Chrom, start |-> MaxStart, end |-> MaxStart + MaxSize,
      name |-> n] : n \in FeatureNames}

\* the features of the random simulations: next to coordinate 0 and away
\* from it, of one base and of MaxSize bases
SimFeatures ==
    {[chrom |-> Chrom, start |-> g[1], end |-> g[1] + g[2],
      name |-> <<"m", "_", "G", "_", "T">>] :
        g \in {<<1, 1>>, <<MaxStart, 1>>, <<MaxStart, MaxSize>>}}

\* the lists of a key of the simulations: one region of MaxSize bases, one
\* over all coordinates, or both in file order
SimLists ==
    {<<<<0, MaxSize>>>>, <<<<0, MaxCoord>>>>,
     <<<<0, MaxSize>>, <<0, MaxCoord>>>>}

\* allowed_regions_dict as get_regions builds it from records named
\* "G_T...": no record, one region of MaxSize bases (too short for a
\* candidate of MaxSize bases), one region over all coordinates, or that
\* region on another chromosome
SimDicts ==
    {<<>>}
    \cup {[k \in {<<<<"G">>, <<"T">>, c>>} |-> l] :
             c \in {"chr1", "chr2"}, l \in SimLists}

\* the score stores of the simulations: no record, or the record of the
\* base at MaxStart + 2 alone (some candidates meet it, others do not)
SimScoreStores ==
    {SortBed(S) : S \in {{}, {r \in ScoredRecords : r.start = MaxStart + 2}}}

\* the not-allowed stores of the random flanking simulation: none, one base
\* behind the last feature, a gene over all coordinates
SimGeneStores ==
    {<<>>,
     <<BedString(Chrom, MaxStart + MaxSize + 1, MaxStart + MaxSize + 2)>>,
     <<BedString(Chrom, 0, MaxCoord)>>}

-----------------------------------------------------------------------------
(* The state after construction of a Feature, before any method is called. *)

\* the locals of the sampler's last attempt, before any attempt
NO_ATTEMPT ==
    [start |-> 0, end |-> 0, lo |-> 0, hi |-> 0, bound |-> 0, side |-> "",
     shrunk |-> FALSE, accepted |-> FALSE]

Fresh ==
    /\ op = "" /\ pc = "start" /\ score = NO_SCORE /\ error = ""
    /\ right_flank = NO_REGION /\ left_flank = NO_REGION
    /\ intersect_r = <<>> /\ intersect_l = <<>>
    /\ right_feature = <<>> /\ left_feature = <<>>
    /\ attempts = 0 /\ rejected = 0 /\ sim_attempts = 0
    /\ random_features = <<>> /\ samples = 0 /\ queries = 0 /\ empty_queries = 0
    /\ store_query = NO_REGION
    /\ allowed_regions = <<>> /\ random_region = NO_REGION
    /\ last = NO_ATTEMPT

-----------------------------------------------------------------------------
(* Flanking mode. *)

\* A Feature built from one line of the features file; the files and the
\* windows are arguments of the method called on it.
Init ==
    /\ feature \in Features
    /\ allowed_regions_dict = <<>>
    /\ not_allowed_regions_bed = <<>>
    /\ query_bed = <<>>
    /\ window_r = 1 /\ window_l = 1
    /\ Fresh

\* feature.flanking_simulation(not_allowed_regions_bed, query_bed)
Call_flanking_simulation ==
    /\ pc = "start"
    /\ not_allowed_regions_bed' \in FlankNotAllowedStores
    /\ query_bed' \in ScoreStores
    /\ LET f == flanking_regions(feature, 1, 1)
       IN  /\ right_flank' = f.right /\ left_flank' = f.left
           /\ \E ir \in run_bedextract(f.right, not_allowed_regions_bed'),
                 il \in run_bedextract(f.left, not_allowed_regions_bed'),
                 lf \in run_bedextract(f.left, query_bed'),
                 rf \in run_bedextract(f.right, query_bed') :
                 /\ intersect_r' = ir /\ intersect_l' = il
                 \* a flank's scores are fetched only in the branches that use them
                 /\ left_feature' = IF il = <<>> THEN lf ELSE <<>>
                 /\ right_feature' = IF ir = <<>> THEN rf ELSE <<>>
                 /\ score' = flanking_score(ir, il, lf, rf)
    /\ op' = "flanking_simulation" /\ pc' = "done"
    /\ UNCHANGED <<feature, allowed_regions_dict, window_r, window_l,
                   sampler_locals, sim_locals, error>>

NextFlank == Call_flanking_simulation

SpecFlank == Init /\ [][NextFlank]_vars

-----------------------------------------------------------------------------
(* flanking_regions as a function of the feature and the two windows. *)

\* feature.flanking_regions(window_r, window_l)
Call_flanking_regions ==
    /\ pc = "start"
    /\ \E wr \in 0..MaxWindow, wl \in 0..MaxWindow :
        LET f == flanking_regions(feature, wr, wl)
        IN  /\ window_r' = wr /\ window_l' = wl
            /\ right_flank' = f.right /\ left_flank' = f.left
    /\ op' = "flanking_regions" /\ pc' = "done"
    /\ UNCHANGED <<feature, allowed_regions_dict, not_allowed_regions_bed,
                   query_bed, score, intersect_r, intersect_l, right_feature,
                   left_feature, sampler_locals, sim_locals, error>>

NextRegions == Call_flanking_regions

SpecRegions == Init /\ [][NextRegions]_vars

-----------------------------------------------------------------------------
(* lib/features.py: random_regions *)

\* check_overlap: bool(feat_bed.intersect(query_bed)) as "True" / "False".
\* On a query bedtools refuses (negative start) the call may raise instead.
check_overlap(feature_string, query_string) ==
    LET answer == IF Overlaps(feature_string, query_string) THEN "True" ELSE "False"
    IN  IF query_string.start < 0 THEN {answer, "BEDToolsError"} ELSE {answer}

\* the acceptance test with <= for <
accepted_at_bound(random_end, bound, intersect) ==
    random_end <= bound /\ intersect = "False"

\* the acceptance test of both samplers:
\* (random_end < region_end) and (intersect == False)
accepted(random_end, bound, intersect) ==
    random_end < bound /\ intersect = "False"

\* the loop given up one attempt early
exhausted_early(n) == n = MAX_ATTEMPTS - 1

\* elif attempts == MAX_ATTEMPTS
exhausted(n) == n = MAX_ATTEMPTS

\* what one pass of a sampler's loop does with its candidate
attempt_outcome(n, random_end, bound, intersect) ==
    IF intersect = "BEDToolsError" THEN "raise"
    ELSE IF accepted(random_end, bound, intersect) THEN "return"
    ELSE IF exhausted(n) THEN "NA"
    ELSE "retry"

\* where a sampler returns to: its caller's next statement
after_sampler ==
    IF op \in {"random_regions", "random_flanking_regions"} THEN "done" ELSE "query"

\* the sampler was called by a simulation: its locals end with the call
in_simulation ==
    op \in {"random_intragenic_simulation", "random_flanking_simulation"}

\* the end of one pass of a sampler's loop
sampler_step(outcome, random_string, att) ==
    LET returns == outcome \in {"return", "NA"}
    IN  /\ attempts' = IF returns /\ in_simulation THEN 0 ELSE attempts + 1
        /\ rejected' = IF returns /\ in_simulation THEN 0
                       ELSE IF outcome \in {"retry", "NA"} THEN rejected + 1
                       ELSE rejected
        /\ random_region' = IF outcome = "return" THEN random_string
                            ELSE IF outcome = "NA" THEN NA_REGION
                            ELSE random_region
        /\ last' = IF outcome = "retry" THEN last
                   ELSE IF returns /\ in_simulation THEN NO_ATTEMPT
                   ELSE [att EXCEPT !.accepted = (outcome = "return")]
        /\ pc' = IF returns THEN after_sampler
                 ELSE IF outcome = "raise" THEN "raised"
                 ELSE pc
        /\ error' = IF outcome = "raise" THEN "BEDToolsError" ELSE error

\* "_" in self.name
has_underscore(name) == \E i \in DOMAIN name : name[i] = "_"

RECURSIVE split(_)
\* self.name.split("_"): the fields between the underscores, empty ones kept
split(name) ==
    IF ~has_underscore(name) THEN <<name>>
    ELSE LET i == CHOOSE j \in DOMAIN name :
                      name[j] = "_" /\ \A k \in 1..(j - 1) : name[k] # "_"
         IN  <<SubSeq(name, 1, i - 1)>> \o split(SubSeq(name, i + 1, Len(name)))

\* the key built as get_regions builds its keys, from the first two fields
intragenic_key_from_first(names, chrom) == <<names[1], names[2], chrom>>

\* key = (names[1], names[2], self.chrom), the list indexed from 0
intragenic_key(names, chrom) == <<names[2], names[3], chrom>>

\* random.shuffle: the orders it can leave a list in
shuffle(list) ==
    IF list = <<>> THEN {<<>>}
    ELSE {[i \in DOMAIN list |-> list[f[i]]] : f \in Permutations(DOMAIN list)}

\* the shuffle done on the caller's list itself
list_after_shuffle_in_place(list, regions_copy) == regions_copy

\* the caller's list after random.shuffle(regions_copy): regions_copy =
\* allowed_regions[:] is a new list, the caller's list is not touched
list_after_shuffle(list, regions_copy) == list

\* feature.random_regions(allowed_regions): entry
Call_random_regions ==
    /\ pc = "start"
    /\ allowed_regions' \in AllowedLists
    /\ attempts' = 0 /\ rejected' = 0
    /\ op' = "random_regions" /\ pc' = "random_regions"
    /\ UNCHANGED <<inputs, score, flank_locals, random_region, last,
                   sim_locals, error>>

\* one pass of the loop of random_regions
random_regions_attempt ==
    /\ pc = "random_regions"
    /\ LET feature_string == BedString(feature.chrom, feature.start, feature.end)
       IN  \* regions_copy = allowed_regions[:]; random.shuffle(regions_copy)
           \E regions_copy \in shuffle(allowed_regions) :
           LET region_start == regions_copy[1][1]
               region_end == regions_copy[1][2]
           IN  /\ allowed_regions' = list_after_shuffle(allowed_regions, regions_copy)
               \* in a simulation allowed_regions is the list object of the
               \* dictionary: allowed_regions = allowed_regions_dict[key]
               /\ allowed_regions_dict' =
                     IF in_simulation
                     THEN [allowed_regions_dict EXCEPT
                             ![intragenic_key(split(feature.name), feature.chrom)]
                                 = allowed_regions']
                     ELSE allowed_regions_dict
               /\ \E random_start \in region_start..(region_end - 1) :
                   LET random_end == random_start + Size(feature)
                       random_string ==
                           BedString(feature.chrom, random_start, random_end)
                   IN  \E intersect \in check_overlap(feature_string, random_string) :
                       sampler_step(
                           attempt_outcome(attempts + 1, random_end, region_end,
                                           intersect),
                           random_string,
                           [start |-> random_start, end |-> random_end,
                            lo |-> region_start, hi |-> region_end,
                            bound |-> region_end, side |-> "", shrunk |-> FALSE,
                            accepted |-> FALSE])
    /\ UNCHANGED <<feature, not_allowed_regions_bed, query_bed, window_r,
                   window_l, op, score, flank_locals, sim_locals>>

-----------------------------------------------------------------------------
(* lib/features.py: random_flanking_regions *)

\* sorted([a, b])
sorted2(a, b) == IF a <= b THEN <<a, b>> ELSE <<b, a>>

\* right = sorted([self.end + 1, self.end + window_r])
right_window(self, wr) == sorted2(self.end + 1, self.end + wr)

\* the left window without the clamp at 0
left_window_unclamped(self, wl) == sorted2(self.start - 1, self.start - wl)

\* left: its start is 0 when the upstream window is larger than start
left_window(self, wl) ==
    IF wl >= self.start
    THEN sorted2(self.start - 1, 0)
    ELSE sorted2(self.start - 1, self.start - wl)

\* The range random_start is drawn from, randrange(lo, hi), for the chosen
\* window and what the not-allowed store returned for it.  With an overlap,
\* neither branch of the if/elif assigns random_start when flanking[1] is
\* neither below start nor above end (a left window <<-1, 0>> of a feature
\* at 0); no record of a store meets such a window, and the name is then
\* unbound.
search_range(self, flanking, gene_overlap) ==
    IF gene_overlap # <<>>
    THEN IF flanking[2] < self.start
         THEN LET g_index == Len(gene_overlap)
                  distance == self.start - gene_overlap[g_index].end
              IN  [lo |-> self.start - distance, hi |-> self.start,
                   shrunk |-> TRUE, bound |-> TRUE]
         ELSE IF flanking[2] > self.end
         THEN LET distance == gene_overlap[1].start - self.end
              IN  [lo |-> self.end, hi |-> self.end + distance,
                   shrunk |-> TRUE, bound |-> TRUE]
         ELSE [lo |-> 0, hi |-> 0, shrunk |-> TRUE, bound |-> FALSE]
    ELSE [lo |-> flanking[1], hi |-> flanking[2], shrunk |-> FALSE, bound |-> TRUE]

\* the end of a pass of a sampler's loop that raised
sampler_raise(err, att) ==
    /\ attempts' = attempts + 1
    /\ rejected' = rejected
    /\ random_region' = random_region
    /\ last' = att
    /\ pc' = "raised"
    /\ error' = err

\* feature.random_flanking_regions(not_allowed_regions_bed, window_r,
\* window_l): entry
Call_random_flanking_regions ==
    /\ pc = "start"
    /\ not_allowed_regions_bed' \in GeneStores
    /\ window_r' \in 1..MaxWindow
    /\ window_l' \in 1..MaxWindow
    /\ attempts' = 0 /\ rejected' = 0
    /\ op' = "random_flanking_regions" /\ pc' = "random_flanking_regions"
    /\ UNCHANGED <<feature, allowed_regions_dict, query_bed, score,
                   flank_locals, allowed_regions, random_region, last,
                   sim_locals, error>>

\* one pass of the loop of random_flanking_regions
random_flanking_regions_attempt ==
    /\ pc = "random_flanking_regions"
    /\ LET feature_string == BedString(feature.chrom, feature.start, feature.end)
           right == right_window(feature, window_r)
           left == left_window(feature, window_l)
       IN  \* random.choice([right, left])
           \E side \in {"right", "left"} :
           LET flanking == IF side = "right" THEN right ELSE left
               flank == BedString(feature.chrom, flanking[1], flanking[2])
           IN  \E gene_overlap \in run_bedextract(flank, not_allowed_regions_bed) :
               LET range == search_range(feature, flanking, gene_overlap)
                   att == [start |-> 0, end |-> 0, lo |-> range.lo, hi |-> range.hi,
                           bound |-> flanking[2], side |-> side,
                           shrunk |-> range.shrunk, accepted |-> FALSE]
               IN  IF ~range.bound
                   THEN sampler_raise("UnboundLocalError", att)
                   ELSE IF range.lo >= range.hi
                   THEN sampler_raise("ValueError", att)
                   ELSE \E random_start \in range.lo..(range.hi - 1) :
                        LET random_end == random_start + Size(feature)
                            random_string ==
                                BedString(feature.chrom, random_start, random_end)
                        IN  \E intersect \in check_overlap(feature_string, random_string) :
                            sampler_step(
                                attempt_outcome(attempts + 1, random_end,
                                                flanking[2], intersect),
                                random_string,
                                [att EXCEPT !.start = random_start,
                                            !.end = random_end])
    /\ UNCHANGED <<inputs, op, score, flank_locals, allowed_regions, sim_locals>>

\* the two samplers, each called on a fresh feature
NextSamplers ==
    \/ Call_random_regions
    \/ random_regions_attempt
    \/ Call_random_flanking_regions
    \/ random_flanking_regions_attempt

SpecSamplers == Init /\ [][NextSamplers]_vars

-----------------------------------------------------------------------------
(* lib/features.py: random_intragenic_simulation, random_flanking_simulation *)

\* every query result counts as usable
usable_always(features) == TRUE

\* if random_features != ''
usable(features) == features # <<>>

\* feature.random_intragenic_simulation(allowed_regions_dict, query_bed):
\* the checks of the name and of the key, up to the loop
Call_random_intragenic_simulation ==
    /\ pc = "start"
    /\ allowed_regions_dict' \in SimDicts
    /\ query_bed' \in SimScoreStores
    /\ op' = "random_intragenic_simulation"
    /\ IF ~has_underscore(feature.name)
       THEN /\ score' = NameError1 /\ pc' = "done"
            /\ UNCHANGED <<allowed_regions, error>>
       ELSE LET names == split(feature.name)
            IN  IF Len(names) < 3
                THEN \* names[2]: list index out of range
                     /\ error' = "IndexError" /\ pc' = "raised"
                     /\ UNCHANGED <<allowed_regions, score>>
                ELSE LET key == intragenic_key(names, feature.chrom)
                     IN  IF key \in DOMAIN allowed_regions_dict'
                         THEN /\ allowed_regions' = allowed_regions_dict'[key]
                              /\ pc' = "simulation_loop"
                              /\ UNCHANGED <<score, error>>
                         ELSE /\ score' = NameError2 /\ pc' = "done"
                              /\ UNCHANGED <<allowed_regions, error>>
    /\ UNCHANGED <<feature, not_allowed_regions_bed, window_r, window_l,
                   flank_locals, attempts, rejected, random_region, last,
                   sim_locals>>

\* feature.random_flanking_simulation(not_allowed_regions_bed, query_bed,
\* window_r, window_l): entry
Call_random_flanking_simulation ==
    /\ pc = "start"
    /\ not_allowed_regions_bed' \in SimGeneStores
    /\ query_bed' \in SimScoreStores
    /\ \E w \in {<<1, MaxWindow>>, <<MaxWindow, MaxWindow>>} :
        window_r' = w[1] /\ window_l' = w[2]
    /\ op' = "random_flanking_simulation" /\ pc' = "simulation_loop"
    /\ UNCHANGED <<feature, allowed_regions_dict, score, flank_locals,
                   sampler_locals, sim_locals, error>>

\* the head of a pass of a simulation's loop: attempts += 1 and the call of
\* the sampler
simulation_sample ==
    /\ pc = "simulation_loop"
    /\ sim_attempts' = sim_attempts + 1
    /\ samples' = samples + 1
    /\ attempts' = 0 /\ rejected' = 0
    /\ store_query' = NO_REGION
    /\ pc' = IF op = "random_intragenic_simulation"
             THEN "random_regions" ELSE "random_flanking_regions"
    /\ UNCHANGED <<inputs, op, score, flank_locals, allowed_regions,
                   random_region, last, random_features, queries,
                   empty_queries, error>>

\* the rest of the pass: the score-store query on what the sampler returned
\* and the if/elif on its result
simulation_query ==
    /\ pc = "query"
    /\ \E found \in run_bedextract(random_region, query_bed) :
        /\ random_features' = found
        /\ store_query' = IF invokes_store(random_region)
                          THEN random_region ELSE NO_REGION
        /\ queries' = queries + 1
        /\ empty_queries' = IF found = <<>> THEN empty_queries + 1 ELSE empty_queries
        /\ IF usable(found)
           THEN /\ score' = calculate_mean_score(found) /\ pc' = "done"
                /\ random_region' = random_region
           ELSE IF exhausted(sim_attempts)
           THEN /\ score' = calculate_mean_score(found) /\ pc' = "done"
                /\ random_region' = random_region
           ELSE \* the next pass assigns random_region before any use of it
                /\ score' = score /\ pc' = "simulation_loop"
                /\ random_region' = NO_REGION
    /\ UNCHANGED <<inputs, op, flank_locals, attempts, rejected,
                   allowed_regions, last, sim_attempts, samples, error>>

\* the intragenic mode on features named in every way the name check tells
\* apart
InitNamed ==
    /\ feature \in NamedFeatures
    /\ allowed_regions_dict = <<>>
    /\ not_allowed_regions_bed = <<>>
    /\ query_bed = <<>>
    /\ window_r = 1 /\ window_l = 1
    /\ Fresh

NextIntragenic ==
    \/ Call_random_intragenic_simulation
    \/ simulation_sample
    \/ random_regions_attempt
    \/ simulation_query

SpecIntragenic == InitNamed /\ [][NextIntragenic]_vars

\* the two random simulations on well-named features
InitSim ==
    /\ feature \in SimFeatures
    /\ allowed_regions_dict = <<>>
    /\ not_allowed_regions_bed = <<>>
    /\ query_bed = <<>>
    /\ window_r = 1 /\ window_l = 1
    /\ Fresh

NextSim ==
    \/ Call_random_intragenic_simulation
    \/ Call_random_flanking_simulation
    \/ simulation_sample
    \/ random_regions_attempt
    \/ random_flanking_regions_attempt
    \/ simulation_query

SpecSim == InitSim /\ [][NextSim]_vars

-----------------------------------------------------------------------------
(* lib/libtools.py: calculate_mean_score as a function of its argument. *)

\* the records a query result may hold: intervals of 1..MaxSize bases with
\* the scores of the score files
MeanRecords ==
    {[chrom |-> Chrom, start |-> 0, end |-> n, score |-> v] :
        n \in 1..MaxSize, v \in {ScoreAt(p) : p \in 0..(MaxCoord - 1)}}

RECURSIVE SeqsUpTo(_, _)
\* the sequences of at most n elements of S, in every order
SeqsUpTo(S, n) ==
    IF n = 0 THEN {<<>>}
    ELSE LET shorter == SeqsUpTo(S, n - 1)
         IN  shorter \cup {Append(q, x) : q \in shorter, x \in S}

\* a query result of at most MaxScored records, in any order
InitMean ==
    /\ feature \in {f \in Features : f.start = 0 /\ Size(f) = 1}
    /\ allowed_regions_dict = <<>>
    /\ not_allowed_regions_bed = <<>>
    /\ query_bed = <<>>
    /\ window_r = 1 /\ window_l = 1
    /\ op = "" /\ pc = "start" /\ score = NO_SCORE /\ error = ""
    /\ right_flank = NO_REGION /\ left_flank = NO_REGION
    /\ intersect_r = <<>> /\ intersect_l = <<>>
    /\ right_feature = <<>> /\ left_feature = <<>>
    /\ attempts = 0 /\ rejected = 0 /\ sim_attempts = 0
    /\ random_features \in SeqsUpTo(MeanRecords, MaxScored)
    /\ samples = 0 /\ queries = 0 /\ empty_queries = 0
    /\ store_query = NO_REGION
    /\ allowed_regions = <<>> /\ random_region = NO_REGION
    /\ last = NO_ATTEMPT

\* score = calculate_mean_score(random_features)
Call_calculate_mean_score ==
    /\ pc = "start"
    /\ score' = calculate_mean_score(random_features)
    /\ op' = "calculate_mean_score" /\ pc' = "done"
    /\ UNCHANGED <<inputs, flank_locals, sampler_locals, sim_locals, error>>

NextMean == Call_calculate_mean_score

SpecMean == InitMean /\ [][NextMean]_vars

-----------------------------------------------------------------------------
(* Properties of the flanking mode. *)

Max(a, b) == IF a >= b THEN a ELSE b

Min(a, b) == IF a <= b THEN a ELSE b

\* the two ranges share at least one base of the same chromosome
RangesMeet(r, q) ==
    r.chrom = q.chrom /\ Max(r.start, q.start) < Min(r.end, q.end)

\* the positions in a file of the records that meet a region
Meeting(region, file) == {i \in DOMAIN file : RangesMeet(file[i], region)}

RECURSIVE SumAt(_, _)
SumAt(file, I) ==
    IF I = {} THEN 0
    ELSE LET i == CHOOSE j \in I : TRUE
         IN  file[i].score + SumAt(file, I \ {i})

\* s is the mean score of the score-store records that meet the region,
\* "NA" when there is none
IsStoreMeanOf(s, region) ==
    LET I == Meeting(region, query_bed)
    IN  IF I = {} THEN s = NA
        ELSE s.kind = "score" /\ s.num * Cardinality(I) = SumAt(query_bed, I) * s.den

\* s is what a range query on the region followed by the mean can give: the
\* store mean, or "NA" too when the region is not a BED interval
IsFlankMean(s, region) ==
    IsStoreMeanOf(s, region) \/ (~WellFormed(region) /\ s = NA)

FlankingDone == pc = "done" /\ op = "flanking_simulation"

\* C1: flanking_simulation follows the four-row table on (right flank
\* overlaps the not-allowed store, left flank overlaps it): both -> "NA"
\* whatever the score store holds; only right -> the mean score of the left
\* flank's matches; only left -> the mean score of the right flank's matches;
\* neither -> a value combined from the two flanks.  The overlap of a flank
\* that is a BED interval is the overlap of its range with the store.
C1_DecisionTable ==
    FlankingDone =>
        LET over_r == intersect_r # <<>>
            over_l == intersect_l # <<>>
        IN  /\ WellFormed(right_flank) =>
                  (over_r <=> Meeting(right_flank, not_allowed_regions_bed) # {})
            /\ WellFormed(left_flank) =>
                  (over_l <=> Meeting(left_flank, not_allowed_regions_bed) # {})
            /\ (over_r /\ over_l) => score = NA
            /\ (over_r /\ ~over_l) => IsFlankMean(score, left_flank)
            /\ (~over_r /\ over_l) => IsFlankMean(score, right_flank)
            /\ (~over_r /\ ~over_l) =>
                  \/ IsFlankMean(score, left_flank)
                  \/ IsFlankMean(score, right_flank)
                  \/ /\ score.kind = "score"
                     /\ Meeting(left_flank, query_bed) # {}
                     /\ Meeting(right_flank, query_bed) # {}

\* row 2 of the table with a scored right flank that is left out: only the
\* right flank is blocked, both flanks have scores, and the result is the
\* left mean, which differs from the right one
C1_Witness ==
    /\ FlankingDone
    /\ intersect_r # <<>> /\ intersect_l = <<>>
    /\ score.kind = "score"
    /\ Meeting(right_flank, query_bed) # {}
    /\ ~IsStoreMeanOf(score, right_flank)

\* n/d is the mean of the scores of a non-empty list of records
ListMean(records) == [num |-> SumScores(records), den |-> Len(records)]

\* C2: when neither flank overlaps the not-allowed store: if both flanks
\* have score-store matches the result is the arithmetic mean of the two
\* per-side means; if exactly one has matches it is that flank's mean; if
\* neither has, it is "NA".
C2_NeitherOverlaps ==
    (FlankingDone /\ intersect_r = <<>> /\ intersect_l = <<>>) =>
        LET l == ListMean(left_feature)
            r == ListMean(right_feature)
        IN  /\ IsFlankMean(calculate_mean_score(left_feature), left_flank)
            /\ IsFlankMean(calculate_mean_score(right_feature), right_flank)
            /\ (left_feature # <<>> /\ right_feature # <<>>) =>
                  /\ score.kind = "score"
                  /\ 2 * score.num * l.den * r.den
                       = score.den * (l.num * r.den + r.num * l.den)
            /\ (left_feature # <<>> /\ right_feature = <<>>) =>
                  /\ score.kind = "score"
                  /\ score.num * l.den = score.den * l.num
            /\ (left_feature = <<>> /\ right_feature # <<>>) =>
                  /\ score.kind = "score"
                  /\ score.num * r.den = score.den * r.num
            /\ (left_feature = <<>> /\ right_feature = <<>>) => score = NA

\* both flanks free and scored, with more records on one side, and a result
\* that is not the mean over the pooled records
C2_Witness ==
    /\ FlankingDone
    /\ intersect_r = <<>> /\ intersect_l = <<>>
    /\ Len(left_feature) = 2 /\ Len(right_feature) = 1
    /\ score.kind = "score"
    /\ score.num * 3
         # score.den * (SumScores(left_feature) + SumScores(right_feature))

-----------------------------------------------------------------------------
(* Properties of flanking_regions. *)

\* C10: flanking_regions returns right = [end + window_r, end + size +
\* window_r) and left = [start - window_l - size, start - window_l) on the
\* feature's chromosome, both of exactly feature.size bases.
C10_FlankingWindows ==
    (pc = "done" /\ op = "flanking_regions") =>
        LET size == feature.end - feature.start
        IN  /\ right_flank.chrom = feature.chrom
            /\ left_flank.chrom = feature.chrom
            /\ right_flank.start = feature.end + window_r
            /\ right_flank.end = feature.end + size + window_r
            /\ left_flank.start = feature.start - window_l - size
            /\ left_flank.end = feature.start - window_l
            /\ right_flank.end - right_flank.start = size
            /\ left_flank.end - left_flank.start = size

\* the windows of a feature of two bases with different offsets on the two
\* sides, the left one reaching below coordinate 0
C10_Witness ==
    /\ pc = "done" /\ op = "flanking_regions"
    /\ feature.end - feature.start = 2
    /\ window_r = 3 /\ window_l = 2
    /\ left_flank.start < 0

-----------------------------------------------------------------------------
(* Properties of the two samplers. *)

\* the interval a sampler returned, when it is not the sentinel
Returned(sampler) == pc = "done" /\ op = sampler /\ random_region # NA_REGION

\* C3: an interval returned by random_regions other than the sentinel does
\* not overlap the feature, has the size of the feature, and ends strictly
\* below the end of the allowed region it was drawn from in that attempt
\* (a region of the list, in which the interval starts).
C3_RandomRegionInside ==
    Returned("random_regions") =>
        /\ random_region.chrom = feature.chrom
        /\ ~RangesMeet(random_region, feature)
        /\ random_region.end - random_region.start = feature.end - feature.start
        /\ \E i \in DOMAIN allowed_regions :
              allowed_regions[i] = <<last.lo, last.hi>>
        /\ last.lo <= random_region.start
        /\ random_region.end < last.hi

\* an interval returned after a rejected attempt, drawn downstream of the
\* feature from an allowed region that contains the feature
C3_Witness ==
    /\ Returned("random_regions")
    /\ attempts > 1
    /\ last.lo <= feature.start /\ feature.end < last.hi
    /\ random_region.start >= feature.end

\* the candidate of the sampler's last pass passes the acceptance test: it
\* ends below the bound of the pass and does not overlap the feature
LastAcceptable ==
    /\ last.end < last.bound
    /\ ~RangesMeet(BedString(feature.chrom, last.start, last.end), feature)

\* C4: each sampler makes at most 100 attempts; it returns the candidate of
\* the first accepted attempt (every attempt before it was rejected), and
\* the sentinel exactly when all 100 attempts were rejected.
C4_BoundedAttempts ==
    /\ attempts \in 0..MAX_ATTEMPTS
    /\ pc \in {"random_regions", "random_flanking_regions"} =>
          (attempts < MAX_ATTEMPTS /\ rejected = attempts)
    /\ (pc = "done" /\ op \in {"random_regions", "random_flanking_regions"}) =>
          /\ attempts >= 1
          /\ random_region = NA_REGION <=> rejected = MAX_ATTEMPTS
          /\ random_region = NA_REGION =>
                (attempts = MAX_ATTEMPTS /\ ~LastAcceptable)
          /\ random_region # NA_REGION =>
                /\ rejected = attempts - 1
                /\ LastAcceptable
                /\ random_region = BedString(feature.chrom, last.start, last.end)

\* the sentinel returned by random_regions after 100 attempts on a search
\* space that rejects every candidate: no allowed region is longer than the
\* feature
C4_Witness ==
    /\ pc = "done" /\ op = "random_regions"
    /\ random_region = NA_REGION
    /\ attempts = MAX_ATTEMPTS
    /\ \A i \in DOMAIN allowed_regions :
          allowed_regions[i][2] - allowed_regions[i][1] <= feature.end - feature.start

\* C5: an interval returned by random_flanking_regions ends within the
\* bound of the search space it was sampled from (the chosen window, or the
\* gap between the feature and the nearest not-allowed region when one
\* overlaps the window), so it overlaps no not-allowed region, and it does
\* not overlap the feature.
C5_WithinSearchSpace ==
    Returned("random_flanking_regions") =>
        /\ random_region.end <= (IF last.shrunk THEN last.hi ELSE last.bound)
        /\ \A i \in DOMAIN not_allowed_regions_bed :
              ~RangesMeet(random_region, not_allowed_regions_bed[i])
        /\ ~RangesMeet(random_region, feature)

-----------------------------------------------------------------------------
(* Properties of the two random simulations. *)

\* a random simulation has returned after at least one pass of its loop
SimulationDone ==
    /\ pc = "done" /\ sim_attempts >= 1
    /\ op \in {"random_intragenic_simulation", "random_flanking_simulation"}

\* C6: random_intragenic_simulation and random_flanking_simulation run the
\* sample-then-query cycle at most 100 times, with one call of the sampler
\* and one query per pass; they stop at the first pass whose score-store
\* query is not empty and return the mean score of that query's records
\* (the records of the store that meet the candidate of that pass), and
\* they return "NA" exactly when all 100 passes had an empty query; a
\* sentinel from the sampler gives an empty query.
C6_OuterLoop ==
    op \in {"random_intragenic_simulation", "random_flanking_simulation"} =>
        /\ sim_attempts \in 0..MAX_ATTEMPTS
        /\ samples = sim_attempts
        /\ pc = "simulation_loop" =>
              /\ sim_attempts < MAX_ATTEMPTS
              /\ queries = sim_attempts /\ empty_queries = sim_attempts
        /\ pc \in {"random_regions", "random_flanking_regions", "query"} =>
              /\ queries = sim_attempts - 1 /\ empty_queries = sim_attempts - 1
        /\ SimulationDone =>
              /\ queries = sim_attempts
              /\ score = NA <=> empty_queries = MAX_ATTEMPTS
              /\ random_region = NA_REGION => random_features = <<>>
              /\ score = NA =>
                    /\ sim_attempts = MAX_ATTEMPTS
                    /\ random_features = <<>>
              /\ score # NA =>
                    /\ empty_queries = sim_attempts - 1
                    /\ random_features # <<>>
                    /\ random_region # NA_REGION
                    /\ \A i \in DOMAIN random_features :
                          RangesMeet(random_features[i], random_region)
                    /\ Len(random_features)
                         = Cardinality(Meeting(random_region, query_bed))
                    /\ IsStoreMeanOf(score, random_region)

\* a random flanking simulation that returned a mean score on a later pass,
\* after passes whose candidates met no record of the score store
C6_Witness ==
    /\ SimulationDone
    /\ op = "random_flanking_simulation"
    /\ sim_attempts > 1
    /\ empty_queries = sim_attempts - 1
    /\ score.kind = "score"

\* the positions of the underscores of a name
Underscores(name) == {i \in DOMAIN name : name[i] = "_"}

\* the number of underscore-delimited fields of a name
FieldCount(name) == Cardinality(Underscores(name)) + 1

\* the position of the k-th underscore; 0 and Len + 1 close the name
Cut(name, k) ==
    IF k = 0 THEN 0
    ELSE IF k = FieldCount(name) THEN Len(name) + 1
    ELSE CHOOSE i \in Underscores(name) :
             Cardinality({j \in Underscores(name) : j < i}) = k - 1

\* the k-th underscore-delimited field of a name, counted from 1
Field(name, k) == SubSeq(name, Cut(name, k - 1) + 1, Cut(name, k) - 1)

\* nothing was sampled and the score store was never queried
NothingSampled ==
    /\ samples = 0 /\ queries = 0 /\ attempts = 0
    /\ random_region = NO_REGION /\ random_features = <<>>

\* C7: random_intragenic_simulation checks the name and then the key before
\* any sampling or query: a name with no underscore gives "NameError1"
\* whatever the index and the score store hold; a name of at least three
\* fields whose key (second field, third field, chromosome) is absent from
\* the index gives "NameError2"; in both cases no interval is sampled and
\* the score store is not queried, and a key that is present gives neither
\* error result.
C7_NameThenKey ==
    op = "random_intragenic_simulation" =>
        LET name == feature.name
            key == <<Field(name, 2), Field(name, 3), feature.chrom>>
        IN  /\ Underscores(name) = {} =>
                  (pc = "done" /\ score = NameError1 /\ NothingSampled)
            /\ (FieldCount(name) >= 3 /\ key \notin DOMAIN allowed_regions_dict) =>
                  (pc = "done" /\ score = NameError2 /\ NothingSampled)
            /\ (FieldCount(name) >= 3 /\ key \in DOMAIN allowed_regions_dict) =>
                  /\ score \notin {NameError1, NameError2}
                  /\ allowed_regions = allowed_regions_dict[key]
            /\ score \in {NameError1, NameError2} => NothingSampled

\* "NameError2" for a name whose first two fields with the chromosome are a
\* key of the index while its second and third are not, on a score store
\* that holds records
C7_Witness ==
    /\ op = "random_intragenic_simulation" /\ pc = "done"
    /\ score = NameError2
    /\ FieldCount(feature.name) >= 3
    /\ <<Field(feature.name, 1), Field(feature.name, 2), feature.chrom>>
           \in DOMAIN allowed_regions_dict
    /\ query_bed # <<>>

\* C8: for every name that lacks the required fields (no underscore, or
\* fewer than three fields) random_intragenic_simulation returns a
\* NameError string result and does not raise.
C8_NamingErrorNotFatal ==
    (op = "random_intragenic_simulation" /\ FieldCount(feature.name) < 3) =>
        /\ pc = "done"
        /\ score \in {NameError1, NameError2}

\* C9: random_flanking_simulation never raises: on every feature, windows
\* of at least 1 and every not-allowed store it is inside its loop or has
\* returned a mean score or "NA".
C9_NeverRaises ==
    op = "random_flanking_simulation" =>
        /\ pc # "raised"
        /\ pc = "done" => score.kind \in {"score", "NA"}

-----------------------------------------------------------------------------
(* Properties of calculate_mean_score. *)

\* the records of a sequence in every order
Orderings(records) ==
    IF records = <<>> THEN {<<>>}
    ELSE {[i \in DOMAIN records |-> records[f[i]]] :
             f \in Permutations(DOMAIN records)}

\* C11: calculate_mean_score returns "NA" for an empty result, the score of
\* the record for a result of one record, and for every non-empty result
\* the sum of the score fields divided by the number of records, whatever
\* the lengths of the intervals; every ordering of the records gives the
\* same value.
C11_MeanScore ==
    (pc = "done" /\ op = "calculate_mean_score") =>
        /\ random_features = <<>> <=> score = NA
        /\ Len(random_features) = 1 =>
              score = [kind |-> "score", num |-> random_features[1].score,
                       den |-> 1]
        /\ random_features # <<>> =>
              /\ score.kind = "score" /\ score.den > 0
              /\ score.num * Len(random_features)
                   = score.den * SumAt(random_features, DOMAIN random_features)
        /\ \A q \in Orderings(random_features) : calculate_mean_score(q) = score

\* the mean of three records of different lengths and scores, not in the
\* order of their ends, whose length-weighted mean is another value
C11_Witness ==
    /\ pc = "done" /\ op = "calculate_mean_score"
    /\ Len(random_features) = 3
    /\ random_features[1].end > random_features[2].end
    /\ random_features[1].score # random_features[3].score
    /\ score.kind = "score"
    /\ score.num * SumLengths(random_features)
         # score.den * SumWeighted(random_features)

-----------------------------------------------------------------------------
(* Properties of the score-store query of the simulations. *)

\* C12: in a simulation the score store's process is never started on the
\* sentinel: the query of a pass whose sampler returned "NA\tNA\tNA" gives
\* the empty result without starting it (it is started on every other
\* sampler result), and when that pass ends the loop the empty result
\* aggregates to "NA".
C12_SentinelShortCircuit ==
    [][pc = "query" =>
          /\ store_query' # NA_REGION
          /\ random_region = NA_REGION =>
                /\ store_query' = NO_REGION
                /\ random_features' = <<>>
                /\ empty_queries' = empty_queries + 1
                /\ pc' = "done" => score' = NA
          /\ random_region # NA_REGION => store_query' = random_region]_vars

\* a simulation over a score store that holds records, ended by a pass
\* whose sampler returned the sentinel: "NA", and the store was not invoked
C12_Witness ==
    /\ SimulationDone
    /\ random_region = NA_REGION
    /\ query_bed # <<>>
    /\ store_query = NO_REGION
    /\ random_features = <<>>
    /\ score = NA

-----------------------------------------------------------------------------
(* Frame of the sampling on the allowed-region index. *)

\* C13: sampling does not change the index: once a call has received it,
\* no step of random_regions or of random_intragenic_simulation (a pass
\* that accepts, rejects or gives up) changes allowed_regions_dict or the
\* list passed to random_regions, which stays the entry of the feature's
\* key, in the same order.
C13_IndexNotMutated ==
    [][pc # "start" =>
          /\ allowed_regions_dict' = allowed_regions_dict
          /\ allowed_regions' = allowed_regions
          /\ allowed_regions =
                allowed_regions_dict[<<Field(feature.name, 2),
                                       Field(feature.name, 3), feature.chrom>>]]_vars

\* a simulation that sampled more than once from a list of two regions and
\* ended on a candidate drawn from the second one (it ends beyond the first)
C13_Witness ==
    /\ SimulationDone /\ op = "random_intragenic_simulation"
    /\ sim_attempts > 1
    /\ Len(allowed_regions) = 2
    /\ random_region # NA_REGION
    /\ random_region.end > allowed_regions[1][2]

-----------------------------------------------------------------------------
(* Properties of the windows of random_flanking_regions. *)

\* C14: in random_flanking_regions the right window is [end + 1,
\* end + window_r] and the left window is [start - window_l, start - 1]
\* with its lower bound 0 whenever window_l >= start, so the lower bound of
\* the left window is never negative; a pass that found no not-allowed
\* region in its window draws from exactly that window.
C14_RawWindows ==
    op = "random_flanking_regions" =>
        LET right == right_window(feature, window_r)
            left == left_window(feature, window_l)
        IN  /\ right = <<feature.end + 1, feature.end + window_r>>
            /\ left[1] = (IF window_l >= feature.start THEN 0
                          ELSE feature.start - window_l)
            /\ left[2] = feature.start - 1
            /\ left[1] >= 0
            /\ (last.side = "left" /\ ~last.shrunk) =>
                  (last.lo = left[1] /\ last.hi = left[2] /\ last.lo >= 0)
            /\ (last.side = "right" /\ ~last.shrunk) =>
                  (last.lo = right[1] /\ last.hi = right[2])

\* the values of a set of integers closest to x
Closest(S, x) == {v \in S : \A w \in S : Abs(x - v) <= Abs(x - w)}

\* the window of the sampler's last pass, as a region
LastWindow ==
    LET w == IF last.side = "left" THEN left_window(feature, window_l)
             ELSE right_window(feature, window_r)
    IN  BedString(feature.chrom, w[1], w[2])

\* C15: when the window chosen by a pass of random_flanking_regions overlaps
\* not-allowed regions, the start of the candidate is drawn from the gap to
\* the nearest of them: upstream from [E, feature.start) with E the end, of
\* the overlapping regions, closest to the feature start; downstream from
\* [feature.end, S) with S the start closest to the feature end; also when
\* several regions, overlapping or nested, meet the window.  Stated for the
\* windows that are BED intervals, where the overlap is defined, and for
\* stores none of whose regions overlaps the feature, where each region
\* lies on one side of it.
C15_NearestGap ==
    (/\ op = "random_flanking_regions" /\ last.side # "" /\ last.shrunk
     /\ WellFormed(LastWindow)
     /\ Meeting(feature, not_allowed_regions_bed) = {}) =>
        LET over == Meeting(LastWindow, not_allowed_regions_bed)
            ends == {not_allowed_regions_bed[i].end : i \in over}
            starts == {not_allowed_regions_bed[i].start : i \in over}
        IN  /\ over # {}
            /\ last.side = "left" =>
                  /\ last.hi = feature.start
                  /\ last.lo \in Closest(ends, feature.start)
            /\ last.side = "right" =>
                  /\ last.lo = feature.end
                  /\ last.hi \in Closest(starts, feature.end)

\* C16: an interval returned by random_flanking_regions other than the
\* sentinel lies on one side of the feature and inside the search span: its
\* start is at least max(0, feature.start - window_l), its end is below
\* feature.end + window_r, and no coordinate of it is negative.
C16_InsideSearchSpan ==
    Returned("random_flanking_regions") =>
        /\ random_region.chrom = feature.chrom
        /\ \/ random_region.end <= feature.start
           \/ random_region.start >= feature.end
        /\ random_region.start >= Max(0, feature.start - window_l)
        /\ random_region.end < feature.end + window_r
        /\ random_region.start >= 0 /\ random_region.end >= 0
        /\ random_region.start < random_region.end

\* an interval returned upstream of a feature whose left window was cut at
\* coordinate 0, starting at 0
C16_Witness ==
    /\ Returned("random_flanking_regions")
    /\ last.side = "left"
    /\ window_l >= feature.start
    /\ random_region.start = 0
    /\ random_region.end < feature.start

====
